---- MODULE Spec2Model ----
(***************************************************************************)
(* Model of app.py: the windshield design cascade (thermal -> cooling ->   *)
(* fuel), the parametric sweep over it, and the Streamlit script that      *)
(* caches the last result and the last sweep table in the session state.   *)
(*                                                                         *)
(* Numbers are exact rationals [n, d] in lowest terms (d > 0): the model   *)
(* states the arithmetic of the formulas, not binary64 rounding.           *)
(***************************************************************************)
EXTENDS Integers, Sequences, FiniteSets, TLC

VARIABLES
    mode,            \* st.radio "Analysis Mode"
    windshield_size, \* st.slider "Windshield Size"
    min_size,        \* st.number_input "Minimum Size"
    max_size,        \* st.number_input "Maximum Size"
    num_points,      \* st.slider "Number of Points"
    run_button,      \* value st.button returned in the last script run
    session,         \* st.session_state: key -> value
    displayed,       \* what the last script run rendered
    model_calls,     \* arguments of the run_model calls of the last script run
    sweep_calls,     \* arguments of the run_parametric_sweep calls of the last script run
    loaded,          \* the script has run at least once in this session
    arg,             \* arguments of a direct call of the core functions
    ret,             \* outcome of the last direct call
    probe_seen       \* results run_model has returned for arg.x, and how many calls

vars == <<mode, windshield_size, min_size, max_size, num_points, run_button,
          session, displayed, model_calls, sweep_calls, loaded, arg, ret, probe_seen>>

ui_vars == <<mode, windshield_size, min_size, max_size, num_points, run_button,
             session, displayed, model_calls, sweep_calls, loaded>>

-----------------------------------------------------------------------------
(* Arithmetic of the Python float expressions, over exact rationals.       *)

Abs(a) == IF a < 0 THEN -a ELSE a

RECURSIVE GCD(_, _)
GCD(a, b) == IF b = 0 THEN a ELSE GCD(b, a % b)

LCM(a, b) == (a \div GCD(a, b)) * b

Rat(n, d) == LET g == GCD(Abs(n), d) IN [n |-> n \div g, d |-> d \div g]

Int2Rat(k) == [n |-> k, d |-> 1]

RAdd(a, b) ==
    LET l == LCM(a.d, b.d)
    IN  Rat(a.n * (l \div a.d) + b.n * (l \div b.d), l)

RSub(a, b) == RAdd(a, [n |-> -b.n, d |-> b.d])

RMul(a, b) ==
    LET g1 == GCD(Abs(a.n), b.d)
        g2 == GCD(Abs(b.n), a.d)
    IN  Rat((a.n \div g1) * (b.n \div g2), (a.d \div g2) * (b.d \div g1))

\* a / k for an integer k # 0 (k = 0 raises ZeroDivisionError at the caller)
RDivInt(a, k) ==
    IF k > 0 THEN RMul(a, [n |-> 1, d |-> k])
             ELSE RMul(a, [n |-> -1, d |-> -k])

RLess(a, b) ==
    LET l == LCM(a.d, b.d)
    IN  a.n * (l \div a.d) < b.n * (l \div b.d)

RLeq(a, b) == a = b \/ RLess(a, b)

\* a widget value given in hundredths, as the float the widget returns
Q(v) == Rat(v, 100)

-----------------------------------------------------------------------------
(* The OpenMDAO problem: AirplaneCascade and its three components.         *)

\* absolute names of the variables the three setup() methods declare, plus
\* the source OpenMDAO creates for the promoted, unconnected input
ProblemVars ==
    {"_auto_ivc.v0", "thermal.windshield_size", "thermal.heat_load",
     "cooling.heat_load", "cooling.system_weight",
     "perf.system_weight", "perf.windshield_size", "perf.fuel_burn"}

\* prob.setup(): every add_input / add_output has val=1.0
Setup == [v \in ProblemVars |-> Int2Rat(1)]

\* subsystems in add_subsystem order, which is the execution order of the group
SubsystemsCoolingFirst == <<"cooling", "thermal", "perf">>

Subsystems == <<"thermal", "cooling", "perf">>

\* <<source output, target input>>: the two connect() calls and the
\* promotion of windshield_size from thermal and perf
Connections ==
    {<<"thermal.heat_load", "cooling.heat_load">>,
     <<"cooling.system_weight", "perf.system_weight">>,
     <<"_auto_ivc.v0", "thermal.windshield_size">>,
     <<"_auto_ivc.v0", "perf.windshield_size">>}

\* the variable a promoted or absolute name reads and writes
Resolve(name) ==
    CASE name = "windshield_size" -> "_auto_ivc.v0"
      [] name = "fuel_burn"       -> "perf.fuel_burn"
      [] OTHER                    -> name

SetVal(p, name, v) == [p EXCEPT ![Resolve(name)] = v]

GetVal(p, name) == p[Resolve(name)]

\* the inputs each component declares in setup()
Inputs(s) ==
    CASE s = "thermal" -> {"thermal.windshield_size"}
      [] s = "cooling" -> {"cooling.heat_load"}
      [] s = "perf"    -> {"perf.system_weight", "perf.windshield_size"}

\* data transfer into the connected inputs of subsystem s before it runs;
\* an unconnected input keeps its value
Transfer(p, s) ==
    [v \in ProblemVars |->
        IF v \in Inputs(s) /\ \E c \in Connections : c[2] = v
        THEN p[(CHOOSE c \in Connections : c[2] = v)[1]]
        ELSE p[v]]

ThermalCompute(p) ==
    [p EXCEPT !["thermal.heat_load"] =
        RAdd(RMul(Rat(5, 2), p["thermal.windshield_size"]), Int2Rat(10))]

CoolingCompute(p) ==
    [p EXCEPT !["cooling.system_weight"] =
        RAdd(RMul(Rat(1, 2), p["cooling.heat_load"]), Int2Rat(50))]

FuelComputeMinusDrag(p) ==
    [p EXCEPT !["perf.fuel_burn"] =
        RSub(RMul(Rat(4, 5), p["perf.system_weight"]),
             RMul(Rat(6, 5), p["perf.windshield_size"]))]

FuelCompute(p) ==
    LET weight_penalty == RMul(Rat(4, 5), p["perf.system_weight"])
        drag_penalty   == RMul(Rat(6, 5), p["perf.windshield_size"])
    IN  [p EXCEPT !["perf.fuel_burn"] = RAdd(weight_penalty, drag_penalty)]

Compute(p, s) ==
    CASE s = "thermal" -> ThermalCompute(p)
      [] s = "cooling" -> CoolingCompute(p)
      [] s = "perf"    -> FuelCompute(p)

\* prob.run_model(): each subsystem in order, transfer then compute
RECURSIVE RunFrom(_, _)
RunFrom(p, i) ==
    IF i > Len(Subsystems) THEN p
    ELSE RunFrom(Compute(Transfer(p, Subsystems[i]), Subsystems[i]), i + 1)

ProblemRunModel(p) == RunFrom(p, 1)

\* run_model(windshield_size): a fresh problem, set_val, run, read back
RunModelFromSession(x) ==
    IF "last_results" \in DOMAIN session THEN session["last_results"]
    ELSE [windshield_size |-> x,
          heat_load       |-> GetVal(ProblemRunModel(SetVal(Setup, "windshield_size", x)),
                                     "thermal.heat_load"),
          system_weight   |-> GetVal(ProblemRunModel(SetVal(Setup, "windshield_size", x)),
                                     "cooling.system_weight"),
          fuel_burn       |-> GetVal(ProblemRunModel(SetVal(Setup, "windshield_size", x)),
                                     "fuel_burn")]

RunModel(x) ==
    LET prob == ProblemRunModel(SetVal(Setup, "windshield_size", x))
    IN  [windshield_size |-> GetVal(prob, "windshield_size"),
         heat_load       |-> GetVal(prob, "thermal.heat_load"),
         system_weight   |-> GetVal(prob, "cooling.system_weight"),
         fuel_burn       |-> GetVal(prob, "fuel_burn")]

-----------------------------------------------------------------------------
(* run_parametric_sweep                                                    *)

Columns == {"windshield_size", "heat_load", "system_weight", "fuel_burn"}

\* pd.DataFrame(list of dicts): one column per key, rows in list order;
\* an empty list gives a frame without columns
DataFrame(results) ==
    IF results = <<>> THEN [c \in {} |-> <<>>]
    ELSE [c \in Columns |-> [i \in 1..Len(results) |-> results[i][c]]]

NumRows(df) == IF DOMAIN df = {} THEN 0 ELSE Len(df["windshield_size"])

Row(df, i) == [c \in Columns |-> df[c][i]]

\* element i (from 0) of the list comprehension of line 76; num_points # 1
SizeAtOverN(lo, hi, n, i) == RAdd(lo, RDivInt(RMul(RSub(hi, lo), Int2Rat(i)), n))

SizeAt(lo, hi, n, i) == RAdd(lo, RDivInt(RMul(RSub(hi, lo), Int2Rat(i)), n - 1))

Sizes(lo, hi, n) == [k \in 1..(IF n > 0 THEN n ELSE 0) |-> SizeAt(lo, hi, n, k - 1)]

\* the for loop: one run_model call per size, appended in order
RECURSIVE SweepLoopPrepend(_, _, _, _)
SweepLoopPrepend(sizes, k, results, calls) ==
    IF k > Len(sizes) THEN [results |-> results, calls |-> calls]
    ELSE SweepLoopPrepend(sizes, k + 1, <<RunModel(sizes[k])>> \o results,
                          Append(calls, sizes[k]))

RECURSIVE SweepLoop(_, _, _, _)
SweepLoop(sizes, k, results, calls) ==
    IF k > Len(sizes) THEN [results |-> results, calls |-> calls]
    ELSE SweepLoop(sizes, k + 1, Append(results, RunModel(sizes[k])),
                   Append(calls, sizes[k]))

\* outcome of run_parametric_sweep: the returned frame and the run_model
\* calls made, or the exception of the division by num_points - 1 = 0
Returned(loop) ==
    [outcome |-> "return", df |-> DataFrame(loop.results), calls |-> loop.calls]

RunParametricSweep(lo, hi, n) ==
    IF n = 1
    THEN [outcome |-> "ZeroDivisionError", df |-> DataFrame(<<>>), calls |-> <<>>]
    ELSE Returned(SweepLoop(Sizes(lo, hi, n), 1, <<>>, <<>>))

-----------------------------------------------------------------------------
(* The Streamlit script: widgets, session state, the two branches.         *)

\* widget parameters, in hundredths
SliderMin == 50
SliderMax == 1000
SliderDefault == 300
SliderStep == 10
MinSizeDefault == 50
MinSizeLo == 10
MinSizeHi == 500
MaxSizeDefault == 1000
MaxSizeHi == 1500
MinGap == 10
PointsLo == 5
PointsHi == 50
PointsDefault == 20

\* how far from its default each widget is moved, in steps of the widget
SliderReach == 0
MinReach == 0
MaxReach == 0
PointsReach == 0

Modes == {"Single Point", "Parametric Sweep"}

SliderChoices ==
    {v \in {SliderMin, SliderMax}
           \cup {SliderDefault + SliderStep * j : j \in -SliderReach..SliderReach} :
        SliderMin <= v /\ v <= SliderMax}

MinSizeChoices ==
    {v \in {MinSizeLo, MinSizeHi}
           \cup {MinSizeDefault + j : j \in -MinReach..MinReach} :
        MinSizeLo <= v /\ v <= MinSizeHi}

\* min_value of the "Maximum Size" input: min_size + 0.1
MaxSizeFloorNoGap(lo) == lo

MaxSizeFloor(lo) == RAdd(lo, Q(MinGap))

MaxSizeChoices(lo) ==
    {v \in {Q(MaxSizeHi)} \cup {MaxSizeFloor(lo)}
           \cup {Q(MaxSizeDefault + j) : j \in -MaxReach..MaxReach} :
        RLeq(MaxSizeFloor(lo), v) /\ RLeq(v, Q(MaxSizeHi))}

PointsChoices ==
    {n \in {PointsDefault} \cup (PointsLo..(PointsLo + PointsReach)) :
        PointsLo <= n /\ n <= PointsHi}

NoSession == [k \in {} |-> 0]

Has(ss, key) == key \in DOMAIN ss

\* the condition of lines 119 and 180
NeedsRunAlways(rb, ss, key) == TRUE

NeedsRun(rb, ss, key) == rb \/ ~Has(ss, key)

\* lines 122-123
StoreSingleResultsOnly(ss, results, ws) == ("last_results" :> results) @@ ss

StoreSingle(ss, results, ws) ==
    ("last_results" :> results) @@ ("last_size" :> ws) @@ ss

\* line 183
StoreSweep(ss, df) == ("sweep_data" :> df) @@ ss

\* what the branch renders from the session state after the `if`
Shown(ss, key, view) ==
    IF Has(ss, key) THEN [view |-> view, data |-> ss[key]]
    ELSE [view |-> "nothing"]

\* lines 113-175, given the value `run` of the condition of line 119
SinglePointRender(ws, run, ss) ==
    [session     |-> ss,
     displayed   |-> Shown(ss, "last_results", "single"),
     model_calls |-> IF run THEN <<ws>> ELSE <<>>,
     sweep_calls |-> <<>>]

SinglePointBranch(ws, rb, ss) ==
    IF NeedsRun(rb, ss, "last_size")
    THEN SinglePointRender(ws, TRUE, StoreSingle(ss, RunModel(ws), ws))
    ELSE SinglePointRender(ws, FALSE, ss)

\* lines 180-183 when the condition holds, given the outcome sw of the call
\* of line 182; an exception of run_parametric_sweep ends the script run
SweepRun(lo, hi, n, ss, sw) ==
    [session     |-> IF sw.outcome = "return" THEN StoreSweep(ss, sw.df) ELSE ss,
     displayed   |-> IF sw.outcome = "return"
                     THEN [view |-> "sweep", data |-> sw.df]
                     ELSE [view |-> "exception", data |-> sw.outcome],
     model_calls |-> sw.calls,
     sweep_calls |-> <<[min_size |-> lo, max_size |-> hi, num_points |-> n]>>]

\* lines 177-246
SweepBranch(lo, hi, n, rb, ss) ==
    IF NeedsRun(rb, ss, "sweep_data")
    THEN SweepRun(lo, hi, n, ss, RunParametricSweep(lo, hi, n))
    ELSE [session     |-> ss,
          displayed   |-> Shown(ss, "sweep_data", "sweep"),
          model_calls |-> <<>>,
          sweep_calls |-> <<>>]

Script(m, ws, lo, hi, n, rb, ss) ==
    IF m = "Single Point" THEN SinglePointBranch(ws, rb, ss)
    ELSE SweepBranch(lo, hi, n, rb, ss)

\* results run_model returned for the probed input arg.x during `calls`
ProbeCap == 2

RECURSIVE Observe(_, _, _)
Observe(seen, calls, k) ==
    IF k > Len(calls) THEN seen
    ELSE Observe(IF calls[k] = arg.x
                 THEN [results |-> seen.results \cup {RunModel(calls[k])},
                       count   |-> IF seen.count < ProbeCap THEN seen.count + 1
                                   ELSE seen.count]
                 ELSE seen,
                 calls, k + 1)

\* one run of the script with the widget values given
ScriptRun(m, ws, lo, hi, n, rb, track) ==
    \E out \in {Script(m, ws, lo, hi, n, rb, session)} :
        /\ mode' = m
        /\ windshield_size' = ws
        /\ min_size' = lo
        /\ max_size' = hi
        /\ num_points' = n
        /\ run_button' = rb
        /\ session' = out.session
        /\ displayed' = out.displayed
        /\ model_calls' = out.model_calls
        /\ sweep_calls' = out.sweep_calls
        /\ loaded' = TRUE
        /\ probe_seen' = IF track THEN Observe(probe_seen, out.model_calls, 1)
                         ELSE probe_seen
        /\ UNCHANGED <<arg, ret>>

\* first run of the script in a new session
Load(track) ==
    /\ ~loaded
    /\ ScriptRun(mode, windshield_size, min_size, max_size, num_points, FALSE, track)

\* the radio changes: the widgets of the mode entered are new, at their defaults
SelectMode(m, track) ==
    /\ loaded
    /\ m # mode
    /\ ScriptRun(m, Q(SliderDefault), Q(MinSizeDefault), Q(MaxSizeDefault),
                 PointsDefault, FALSE, track)

MoveSlider(v, track) ==
    /\ loaded
    /\ mode = "Single Point"
    /\ Q(v) # windshield_size
    /\ ScriptRun(mode, Q(v), min_size, max_size, num_points, FALSE, track)

\* a new min_size changes min_value of "Maximum Size": that widget is
\* a new one, at its default
SetMinSize(v, track) ==
    /\ loaded
    /\ mode = "Parametric Sweep"
    /\ Q(v) # min_size
    /\ ScriptRun(mode, windshield_size, Q(v), Q(MaxSizeDefault), num_points, FALSE, track)

SetMaxSize(v, track) ==
    /\ loaded
    /\ mode = "Parametric Sweep"
    /\ v # max_size
    /\ ScriptRun(mode, windshield_size, min_size, v, num_points, FALSE, track)

SetNumPoints(n, track) ==
    /\ loaded
    /\ mode = "Parametric Sweep"
    /\ n # num_points
    /\ ScriptRun(mode, windshield_size, min_size, max_size, n, FALSE, track)

PressRun(track) ==
    /\ loaded
    /\ ScriptRun(mode, windshield_size, min_size, max_size, num_points, TRUE, track)

\* a rerun with no widget changed
Rerun(track) ==
    /\ loaded
    /\ ScriptRun(mode, windshield_size, min_size, max_size, num_points, FALSE, track)

UIInit ==
    /\ mode = "Single Point"
    /\ windshield_size = Q(SliderDefault)
    /\ min_size = Q(MinSizeDefault)
    /\ max_size = Q(MaxSizeDefault)
    /\ num_points = PointsDefault
    /\ run_button = FALSE
    /\ session = NoSession
    /\ displayed = [view |-> "nothing"]
    /\ model_calls = <<>>
    /\ sweep_calls = <<>>
    /\ loaded = FALSE

NoRet == [op |-> "none"]

NoProbe == [results |-> {}, count |-> 0]

Init ==
    /\ UIInit
    /\ arg = [x |-> Q(SliderDefault), min_size |-> Q(MinSizeDefault),
              max_size |-> Q(MaxSizeDefault), num_points |-> PointsDefault]
    /\ ret = NoRet
    /\ probe_seen = NoProbe

Next ==
    \/ Load(FALSE)
    \/ \E m \in Modes : SelectMode(m, FALSE)
    \/ \E v \in SliderChoices : MoveSlider(v, FALSE)
    \/ \E v \in MinSizeChoices : SetMinSize(v, FALSE)
    \/ \E v \in MaxSizeChoices(min_size) : SetMaxSize(v, FALSE)
    \/ \E n \in PointsChoices : SetNumPoints(n, FALSE)
    \/ PressRun(FALSE)
    \/ Rerun(FALSE)

Spec == Init /\ [][Next]_vars

-----------------------------------------------------------------------------
(* The two functions called directly, on arguments of any sign.            *)

MaxArg == 8
MaxCorePoints == 6

\* -1.0, -0.5, 0.0, 0.5, ... : sizes of either sign around the slider's range
ArgValues == {Rat(k - 2, 2) : k \in 0..MaxArg}

ArgPoints == -1..MaxCorePoints

CallRunModel(track) ==
    /\ ret' = [op |-> "run_model", outcome |-> "return", value |-> RunModel(arg.x)]
    /\ probe_seen' = IF track THEN Observe(probe_seen, <<arg.x>>, 1) ELSE probe_seen
    /\ UNCHANGED <<ui_vars, arg>>

CallRunParametricSweep(track) ==
    \E sw \in {RunParametricSweep(arg.min_size, arg.max_size, arg.num_points)} :
        /\ ret' = [op |-> "run_parametric_sweep", outcome |-> sw.outcome,
                   value |-> sw.df, calls |-> sw.calls]
        /\ probe_seen' = IF track THEN Observe(probe_seen, sw.calls, 1) ELSE probe_seen
        /\ UNCHANGED <<ui_vars, arg>>

InitCore ==
    /\ UIInit
    /\ arg \in [x : ArgValues, min_size : ArgValues, max_size : ArgValues,
                num_points : ArgPoints]
    /\ ret = NoRet
    /\ probe_seen = NoProbe

NextCore ==
    \/ CallRunModel(FALSE)
    \/ CallRunParametricSweep(FALSE)

SpecCore == InitCore /\ [][NextCore]_vars

-----------------------------------------------------------------------------
(* Properties of the two functions, under SpecCore.                        *)

IsRunModelReturn == ret.op = "run_model"

IsSweepReturn == ret.op = "run_parametric_sweep" /\ ret.outcome = "return"

ValidRange == RLess(arg.min_size, arg.max_size) /\ arg.num_points >= 2

\* (max - min) / (num_points - 1)
SweepStep == RDivInt(RSub(arg.max_size, arg.min_size), arg.num_points - 1)

\* min + (i - 1) * step, the i-th sample (from 1)
Sample(i) == RAdd(arg.min_size, RMul(Int2Rat(i - 1), SweepStep))

\* C1: run_model(x) returns windshield_size = x, heat_load = 2.5*x + 10,
\* system_weight = 0.5*heat_load + 50 and fuel_burn = 0.8*system_weight + 1.2*x,
\* with the heat_load and system_weight of the same record; run_model(3.0)
\* gives 17.5, 58.75 and 50.6.
C1_RunModelIsComposition ==
    IsRunModelReturn =>
        /\ DOMAIN ret.value = Columns
        /\ ret.value.windshield_size = arg.x
        /\ ret.value.heat_load = RAdd(RMul(Rat(5, 2), arg.x), Int2Rat(10))
        /\ ret.value.system_weight =
               RAdd(RMul(Rat(1, 2), ret.value.heat_load), Int2Rat(50))
        /\ ret.value.fuel_burn =
               RAdd(RMul(Rat(4, 5), ret.value.system_weight), RMul(Rat(6, 5), arg.x))
        /\ (arg.x = Int2Rat(3) =>
               /\ ret.value.heat_load = Rat(175, 10)
               /\ ret.value.system_weight = Rat(5875, 100)
               /\ ret.value.fuel_burn = Rat(506, 10))

C1_Witness ==
    /\ IsRunModelReturn
    /\ arg.x = Int2Rat(3)
    /\ ret.value.fuel_burn = Rat(506, 10)

C4_RowsAreRunModelOfSamples ==
    (ret.op = "run_parametric_sweep" /\ ValidRange) =>
        /\ ret.outcome = "return"
        /\ Len(ret.calls) = arg.num_points
        /\ NumRows(ret.value) = arg.num_points
        /\ \A i \in 1..arg.num_points :
               /\ ret.calls[i] = Sample(i)
               /\ Row(ret.value, i) = RunModel(Sample(i))
        /\ \A i \in 1..(arg.num_points - 1) : RLess(ret.calls[i], ret.calls[i + 1])

C4_Witness ==
    /\ IsSweepReturn
    /\ ValidRange
    /\ arg.num_points >= 3
    /\ Len(ret.calls) = arg.num_points
    /\ Row(ret.value, 2) = RunModel(Sample(2))
    /\ Row(ret.value, 2) # Row(ret.value, 1)

\* C5: run_parametric_sweep raises InvalidRangeError, and returns no table,
\* whenever max <= min or num_points < 2.
C5_InvalidRangeRaises ==
    (ret.op = "run_parametric_sweep" /\ ~ValidRange) =>
        ret.outcome = "InvalidRangeError"

-----------------------------------------------------------------------------
(* The script together with direct calls of the two functions: every       *)
(* run_model call on the probed input arg.x is recorded in probe_seen.     *)

InitCalls ==
    /\ UIInit
    /\ \E v \in SliderChoices :
           arg = [x |-> Q(v), min_size |-> Q(v), max_size |-> Q(v + SliderStep),
                  num_points |-> 2]
    /\ ret = NoRet
    /\ probe_seen = NoProbe

NextCalls ==
    \/ Load(TRUE)
    \/ \E m \in Modes : SelectMode(m, TRUE)
    \/ \E v \in SliderChoices : MoveSlider(v, TRUE)
    \/ PressRun(TRUE)
    \/ Rerun(TRUE)
    \/ CallRunModel(TRUE)
    \/ CallRunParametricSweep(TRUE)

SpecCalls == InitCalls /\ [][NextCalls]_vars

-----------------------------------------------------------------------------
(* Properties of the script, under Spec.                                   *)

\* the cached entry under key, as a sequence of at most one value
Entry(ss, key) == IF Has(ss, key) THEN <<ss[key]>> ELSE <<>>

\* C6: every call of run_parametric_sweep the script makes has
\* min_size < max_size and num_points >= 5.
C6_UISweepCallsValid ==
    \A k \in 1..Len(sweep_calls) :
        /\ RLess(sweep_calls[k].min_size, sweep_calls[k].max_size)
        /\ sweep_calls[k].num_points >= PointsLo
        /\ sweep_calls[k].num_points >= 2

C6_Witness ==
    /\ run_button
    /\ Len(sweep_calls) = 1
    /\ sweep_calls[1].min_size = Q(MinSizeHi)
    /\ sweep_calls[1].max_size = MaxSizeFloor(Q(MinSizeHi))
    /\ sweep_calls[1].num_points = PointsLo

\* C7: what a render displays is computed from the current inputs: in
\* Single Point mode run_model(windshield_size), in Parametric Sweep mode
\* run_parametric_sweep(min_size, max_size, num_points).
C7_DisplayedIsCurrent ==
    loaded =>
        /\ mode = "Single Point" =>
               /\ displayed.view = "single"
               /\ displayed.data = RunModel(windshield_size)
        /\ mode = "Parametric Sweep" =>
               /\ displayed.view = "sweep"
               /\ displayed.data = RunParametricSweep(min_size, max_size, num_points).df

\* C8: a render without Run pressed, with the mode's key already in the
\* session state, calls neither function and leaves the session state as it
\* was; a render in one mode never changes the other mode's entry.
C8_RerenderDoesNotRecompute ==
    [][/\ (mode' = "Single Point" /\ ~run_button' /\ Has(session, "last_size")) =>
              /\ model_calls' = <<>>
              /\ sweep_calls' = <<>>
              /\ session' = session
       /\ (mode' = "Parametric Sweep" /\ ~run_button' /\ Has(session, "sweep_data")) =>
              /\ model_calls' = <<>>
              /\ sweep_calls' = <<>>
              /\ session' = session
       /\ mode' = "Single Point" =>
              Entry(session', "sweep_data") = Entry(session, "sweep_data")
       /\ mode' = "Parametric Sweep" =>
              /\ Entry(session', "last_results") = Entry(session, "last_results")
              /\ Entry(session', "last_size") = Entry(session, "last_size")]_vars

C8_Witness ==
    /\ loaded
    /\ mode = "Single Point"
    /\ ~run_button
    /\ model_calls = <<>>
    /\ Has(session, "sweep_data")
    /\ Has(session, "last_size")
    /\ session["last_size"] # windshield_size

\* C9: last_results and last_size are both absent or both present; when
\* present, last_results = run_model(last_size); once the script has run,
\* last_results is present and a Single Point render displays it.
C9_CacheCoherent ==
    /\ Has(session, "last_results") <=> Has(session, "last_size")
    /\ Has(session, "last_results") =>
           /\ Has(session, "last_size")
           /\ session["last_results"] = RunModel(session["last_size"])
           /\ session["last_results"].windshield_size = session["last_size"]
    /\ loaded => Has(session, "last_results")
    /\ (loaded /\ mode = "Single Point") =>
           displayed = [view |-> "single", data |-> session["last_results"]]

C9_Witness ==
    /\ loaded
    /\ mode = "Single Point"
    /\ run_button
    /\ session["last_size"] # Q(SliderDefault)
    /\ session["last_results"] = RunModel(windshield_size)

====
